---------------------------- MODULE Spec2Model ----------------------------
(***************************************************************************)
(* State-machine model of BMSEnvironment                                   *)
(* (src/Environments/Environment_BMS.py): a battery co-located with PV     *)
(* generation and a load, driven by reset() and step(action).              *)
(*                                                                         *)
(* Numbers.  The program computes in floating point; the model computes    *)
(* exactly, in fixed point, over integers:                                 *)
(*   power  (action, L, G, P_grid, ...)  in units of 1/PowerScale          *)
(*   SoC                                 in units of 1/SoCScale            *)
(*   prices                              in units of 1/PriceScale          *)
(*   money  (cost, revenue, penalties, reward) in units of 1/MoneyScale    *)
(*   eta                                 in units of 1/EtaScale            *)
(* The scales are chosen so that every product and quotient of step() is   *)
(* an integer for the configurations below; sin() is taken to four         *)
(* decimals.  A model value is the program's value at the resolution of    *)
(* its unit.  Floating-point rounding is far below that resolution and     *)
(* shows in one place only: the guard of _get_SoC, when the sum            *)
(* SoC + eta * (action * time_interval) / battery_capacity lands on        *)
(* SoC_min or SoC_max.  There the double (or, with numpy >= 2 promotion,   *)
(* the float32) may fall on either side of the bound (0.6 - 0.5 is         *)
(* 0.09999999999999998 < 0.1), so the side is a nondeterministic choice    *)
(* (Roundings); the penalty of such a clip, of the order of 1e-16, is 0 at *)
(* the model's resolution.  The float32 bounds of action_space are exact   *)
(* for the configured a_min/a_max.                                         *)
(*                                                                         *)
(* The clock is an hour count: reset() puts it at midnight and step() adds *)
(* whole hours, so time.minute is always 0; weekday() and hour are derived *)
(* from the count.  The observation vector (a float32 encoding of SoC, L,  *)
(* G and the clock, built by _get_obs without changing state) is not       *)
(* modelled.                                                               *)
(***************************************************************************)
EXTENDS Integers, Sequences, FiniteSets, TLC

VARIABLES
    cfg,            \* the keyword arguments of __init__ (never change)
    SoC,            \* self.SoC
    L,              \* self.L
    G,              \* self.G
    time,           \* self.time, in hours since Monday 00:00 of the reset week
    current_step,   \* self.current_step
    ret             \* the last call: its argument, locals and returned values

vars == <<cfg, SoC, L, G, time, current_step, ret>>

-----------------------------------------------------------------------------
(* Fixed-point scales *)

PowerScale == 2 * 10000
PriceScale == 10 * 10
EtaScale   == 2 * 5
SoCScale   == 100 * PowerScale
MoneyScale == PriceScale * PowerScale

\* Python's None, for the attributes __init__ leaves unset.
None == 0 - 2000000000

-----------------------------------------------------------------------------
(* Bounds of the model *)

\* step() calls allowed per episode under Spec.
MaxCalls == 4

\* step() calls allowed per episode under SpecDay (one day and one more hour).
MaxDayCalls == 25

-----------------------------------------------------------------------------
(* Helpers for Python / numpy built-ins *)

Min(a, b) == IF a <= b THEN a ELSE b

Max(a, b) == IF a >= b THEN a ELSE b

Abs(x) == IF x < 0 THEN 0 - x ELSE x

\* np.clip(x, lo, hi) = minimum(maximum(x, lo), hi)
Clip(x, lo, hi) == Min(Max(x, lo), hi)

\* 10^4 * sin(pi * k / 12), to four decimals, for k = 0 .. 23
SinTable ==
    << 0, 2588, 5000, 7071, 8660, 9659, 10000, 9659, 8660, 7071, 5000, 2588,
       0, -2588, -5000, -7071, -8660, -9659, -10000, -9659, -8660, -7071,
       -5000, -2588 >>

\* np.sin(np.pi * k / 12) in units of 2/PowerScale, for any integer k
Sin12(k) == SinTable[(k % 24) + 1]

-----------------------------------------------------------------------------
(* Configurations: __init__'s keyword arguments *)

DefaultConfig ==
    [ initial_SoC      |-> (SoCScale \div 2),
      SoC_min          |-> (SoCScale \div 10),
      SoC_max          |-> (95 * SoCScale) \div 100,
      Load_min         |-> 0,
      Load_max         |-> PowerScale,
      Generation_min   |-> 0,
      Generation_max   |-> PowerScale,
      Price_min        |-> 10,
      Price_mid        |-> 20,
      Price_max        |-> 30,
      a_min            |-> 0 - PowerScale,
      a_max            |-> PowerScale,
      max_steps        |-> 24,
      miu_p            |-> 10,
      lamda_p          |-> 10,
      eta              |-> 9,
      battery_capacity |-> 10,
      time_interval    |-> 1 ]

\* battery_capacity=1.0, eta=1.0: one step can cross either SoC bound
SmallBattery ==
    [DefaultConfig EXCEPT !.battery_capacity = 1, !.eta = 10]

\* max_steps=2
ShortEpisode == [DefaultConfig EXCEPT !.max_steps = 2]

\* time_interval=2.0
TwoHour == [DefaultConfig EXCEPT !.time_interval = 2]

\* initial_SoC=1.0, above SoC_max
HighInit == [DefaultConfig EXCEPT !.initial_SoC = SoCScale]

\* Generation_min=0.5, Load_max=0.25: PV surplus at every hour
Surplus ==
    [DefaultConfig EXCEPT !.Generation_min = PowerScale \div 2,
                          !.Load_max = PowerScale \div 4]

\* a_min=-0.5, a_max=0.5
NarrowAction ==
    [DefaultConfig EXCEPT !.a_min = 0 - (PowerScale \div 2),
                          !.a_max = PowerScale \div 2]

Configs ==
    {DefaultConfig, SmallBattery, ShortEpisode, TwoHour, HighInit, Surplus,
     NarrowAction}

\* Requested actions: -1.5, -1.0, -0.5, 0, 0.5, 1.0, 1.5
Actions == { (k * PowerScale) \div 2 : k \in (0 - 3) .. 3 }

\* Requested actions under SpecDay: 0 and 1.5
DayActions == { 0, (3 * PowerScale) \div 2 }

-----------------------------------------------------------------------------
(* The clock *)

\* self.time.weekday(): 0 = Monday, ..., 6 = Sunday
weekday(t) == (t \div 24) % 7

\* self.time.hour
hour(t) == t % 24


-----------------------------------------------------------------------------
(* The methods of BMSEnvironment *)

\* self.action_space: Box(low=[a_min], high=[a_max], dtype=float32)
action_space(c) == [low |-> c.a_min, high |-> c.a_max]

\* _get_info(): the per-call info dictionary
_get_info(soc, load, generation) ==
    [ SoC               |-> soc,
      Load              |-> load,
      Generation        |-> generation,
      Violations_SoC    |-> <<>>,
      violations_action |-> <<>>,
      penalty_SoC       |-> <<>>,
      penalty_action    |-> <<>> ]

\* eta * (action * time_interval) / battery_capacity, in SoC units
SoC_increment(action, c) ==
    (c.eta * (action * c.time_interval) * (SoCScale \div (EtaScale * PowerScale)))
        \div c.battery_capacity

\* The sides on which the floating-point SoC_proposed of _get_SoC may fall:
\* SoC + 0.0 is exact; any other sum is rounded, which matters to the guard
\* only when the sum is SoC_min or SoC_max.
Roundings(soc, action, c) ==
    IF /\ SoC_increment(action, c) # 0
       /\ soc + SoC_increment(action, c) \in {c.SoC_min, c.SoC_max}
    THEN {0 - 1, 0, 1}
    ELSE {0}

\* _get_SoC with the clip forgotten: the proposed SoC is stored as it is
_get_SoC_unclipped(soc, action, info, c, rounding) ==
    LET SoC_proposed == soc + SoC_increment(action, c)
        violated     == \/ SoC_proposed < c.SoC_min
                        \/ SoC_proposed = c.SoC_min /\ rounding < 0
                        \/ SoC_proposed > c.SoC_max
                        \/ SoC_proposed = c.SoC_max /\ rounding > 0
        info1        == IF violated
                        THEN [info EXCEPT !.Violations_SoC =
                                 Append(@, [ type         |-> "SoC Violation",
                                             value        |-> SoC_proposed,
                                             corrected_to |-> Clip(SoC_proposed, c.SoC_min, c.SoC_max) ])]
                        ELSE info
    IN  [ SoC         |-> SoC_proposed,
          penalty_SoC |-> 0,
          info        |-> [info1 EXCEPT !.penalty_SoC = Append(@, 0)] ]

\* _get_SoC(action, info) on self.SoC = soc: the new SoC, the penalty (money
\* units) and the info dictionary as the call leaves it.  `rounding` is the
\* side on which the floating-point SoC_proposed falls of the model's value
\* (-1 below, 0 equal, 1 above); it decides the guard when that value is a
\* bound.
_get_SoC(soc, action, info, c, rounding) ==
    LET SoC_proposed == soc + SoC_increment(action, c)
        violated     == \/ SoC_proposed < c.SoC_min
                        \/ SoC_proposed = c.SoC_min /\ rounding < 0
                        \/ SoC_proposed > c.SoC_max
                        \/ SoC_proposed = c.SoC_max /\ rounding > 0
        SoC_adjusted == IF violated
                        THEN Clip(SoC_proposed, c.SoC_min, c.SoC_max)
                        ELSE SoC_proposed
        delta_SoC    == Abs(SoC_proposed - SoC_adjusted)
        penalty_SoC  == c.lamda_p * delta_SoC * (MoneyScale \div SoCScale)
        info1        == IF violated
                        THEN [info EXCEPT !.Violations_SoC =
                                 Append(@, [ type         |-> "SoC Violation",
                                             value        |-> SoC_proposed,
                                             corrected_to |-> Clip(SoC_proposed, c.SoC_min, c.SoC_max) ])]
                        ELSE info
    IN  [ SoC         |-> SoC_adjusted,
          penalty_SoC |-> penalty_SoC,
          info        |-> [info1 EXCEPT !.penalty_SoC = Append(@, penalty_SoC)] ]

\* _get_action_check clipping against the upper bound only
_get_action_check_upper_only(action, info, c) ==
    LET adjusted_action == Min(action, action_space(c).high)
        delta_action    == Abs(action - adjusted_action)
        info1           == IF action # adjusted_action
                           THEN [info EXCEPT !.violations_action =
                                    Append(@, [ type         |-> "Action Violation",
                                                value        |-> action,
                                                corrected_to |-> adjusted_action ])]
                           ELSE info
        penalty_action  == c.miu_p * delta_action * (MoneyScale \div PowerScale)
    IN  [ adjusted_action |-> adjusted_action,
          penalty_action  |-> penalty_action,
          info            |-> info1 ]

\* _get_action_check(action, info): the adjusted action, the penalty (money
\* units) and the info dictionary as the call leaves it
_get_action_check(action, info, c) ==
    LET adjusted_action == Clip(action, action_space(c).low, action_space(c).high)
        delta_action    == Abs(action - adjusted_action)
        info1           == IF action # adjusted_action
                           THEN [info EXCEPT !.violations_action =
                                    Append(@, [ type         |-> "Action Violation",
                                                value        |-> action,
                                                corrected_to |-> adjusted_action ])]
                           ELSE info
        penalty_action  == c.miu_p * delta_action * (MoneyScale \div PowerScale)
    IN  [ adjusted_action |-> adjusted_action,
          penalty_action  |-> penalty_action,
          info            |-> info1 ]

\* _get_price with the weekday peak running to 20:00, as in the older draft
\* (src/Environments/environment.py)
_get_price_peak_to_20(t, c) ==
    LET day_of_week == weekday(t)
        h           == hour(t)
    IN  IF day_of_week < 5
        THEN IF 8 <= h /\ h < 20
             THEN c.Price_max
             ELSE IF (7 <= h /\ h < 8) \/ (20 <= h /\ h < 23)
                  THEN c.Price_mid
                  ELSE c.Price_min
        ELSE IF day_of_week = 5
             THEN IF 7 <= h /\ h < 23 THEN c.Price_mid ELSE c.Price_min
             ELSE c.Price_min

\* _get_price() at self.time = t
_get_price(t, c) ==
    LET day_of_week == weekday(t)
        h           == hour(t)
    IN  IF day_of_week < 5
        THEN IF 8 <= h /\ h < 19
             THEN c.Price_max
             ELSE IF (7 <= h /\ h < 8) \/ (19 <= h /\ h < 23)
                  THEN c.Price_mid
                  ELSE c.Price_min
        ELSE IF day_of_week = 5
             THEN IF 7 <= h /\ h < 23 THEN c.Price_mid ELSE c.Price_min
             ELSE c.Price_min

\* _update_generation_and_load() at self.time = t: the new self.G and self.L
_update_generation_and_load(t, c) ==
    LET h  == hour(t)
        G0 == Max(0, Sin12(h - 6) * (PowerScale \div 10000))
        L0 == (PowerScale \div 2) + Sin12(h - 17) * (PowerScale \div (2 * 10000))
    IN  [ G |-> Clip(G0, c.Generation_min, c.Generation_max),
          L |-> Clip(L0, c.Load_min, c.Load_max) ]

\* the battery action the energy balance allows (step, "Determine battery action")
actual_action_of(action_corrected, net_load) ==
    IF action_corrected < 0
    THEN LET max_discharge == Min(0 - action_corrected, net_load)
         IN  0 - max_discharge
    ELSE IF action_corrected > 0
         THEN LET surplus_pv == Max(0, 0 - net_load)
                  max_charge == Min(action_corrected, surplus_pv)
              IN  max_charge
         ELSE 0

\* grid exchange (step, "Grid interaction")
grid_interaction(net_load_after_battery) ==
    IF net_load_after_battery > 0
    THEN [P_grid |-> net_load_after_battery, P_surplus |-> 0]
    ELSE IF net_load_after_battery < 0
         THEN [P_grid |-> 0, P_surplus |-> 0 - net_load_after_battery]
         ELSE [P_grid |-> 0, P_surplus |-> 0]

\* done with > for >=: the episode ends one step late
done_strict(step_count, c) == step_count > c.max_steps

\* done = self.current_step >= self.max_steps
done(step_count, c) == step_count >= c.max_steps

\* self.time += datetime.timedelta(hours=1)
advance(t) == t + 1

-----------------------------------------------------------------------------
(* The state machine *)

\* What `ret` holds when no call has been made, and the fields a call leaves
\* untouched.
NoRet ==
    [ op               |-> "none",
      status           |-> "ok",
      action           |-> 0,
      action_corrected |-> 0,
      penalty_action   |-> 0,
      SoC_first        |-> None,
      net_load         |-> 0,
      actual_action    |-> 0,
      P_grid           |-> 0,
      P_surplus        |-> 0,
      price            |-> 0,
      C_purchased      |-> 0,
      R_sale           |-> 0,
      penalty_SoC      |-> 0,
      reward           |-> 0,
      terminated       |-> FALSE,
      truncated        |-> FALSE,
      info             |-> _get_info(None, None, None) ]

\* __init__(**kwargs)
InitWith(configs) ==
    /\ cfg \in configs
    /\ SoC = None
    /\ L = None
    /\ G = None
    /\ time = None
    /\ current_step = 0
    /\ ret = NoRet

Init == InitWith(Configs)

InitDay == InitWith({DefaultConfig})

\* reset(): datetime.now() falls on any day of the week
reset ==
    \E today \in 0 .. 6 :
        LET t  == 24 * today
            gl == _update_generation_and_load(t, cfg)
        IN  /\ current_step' = 0
            /\ SoC' = cfg.initial_SoC
            /\ time' = t
            /\ G' = gl.G
            /\ L' = gl.L
            /\ ret' = [NoRet EXCEPT !.op = "reset",
                                    !.info = _get_info(cfg.initial_SoC, gl.L, gl.G)]
            /\ UNCHANGED cfg

\* step(action) before any reset(): self.SoC is None, and _get_SoC raises
\* TypeError after current_step was incremented
step_unset(action) ==
    /\ SoC = None
    /\ current_step' = current_step + 1
    /\ ret' = [NoRet EXCEPT !.op = "step", !.status = "TypeError",
                            !.action = action]
    /\ UNCHANGED <<cfg, SoC, L, G, time>>

\* step(action) after a reset()
step_set(action) ==
    /\ SoC # None
    /\ LET info0   == _get_info(SoC, L, G)
           chk     == _get_action_check(action, info0, cfg)
           a_c     == chk.adjusted_action
           gl      == _update_generation_and_load(time, cfg)
           net     == gl.L - gl.G
           actual  == actual_action_of(a_c, net)
           grid    == grid_interaction(net + actual)
           price   == _get_price(time, cfg)
           C_purchased == price * grid.P_grid
           R_sale      == price * grid.P_surplus
       IN  \E r1 \in Roundings(SoC, a_c, cfg) :
             LET first == _get_SoC(SoC, a_c, chk.info, cfg, r1)
             IN  \E r2 \in Roundings(first.SoC, actual - a_c, cfg) :
                   LET second  == _get_SoC(first.SoC, actual - a_c, first.info, cfg, r2)
                       pen_SoC == first.penalty_SoC + second.penalty_SoC
                       total_penalty == chk.penalty_action + pen_SoC
                       reward  == R_sale - C_purchased - total_penalty
                   IN  /\ current_step' = current_step + 1
                       /\ SoC' = second.SoC
                       /\ G' = gl.G
                       /\ L' = gl.L
                       /\ time' = advance(time)
                       /\ ret' = [ op               |-> "step",
                                   status           |-> "ok",
                                   action           |-> action,
                                   action_corrected |-> a_c,
                                   penalty_action   |-> chk.penalty_action,
                                   SoC_first        |-> first.SoC,
                                   net_load         |-> net,
                                   actual_action    |-> actual,
                                   P_grid           |-> grid.P_grid,
                                   P_surplus        |-> grid.P_surplus,
                                   price            |-> price,
                                   C_purchased      |-> C_purchased,
                                   R_sale           |-> R_sale,
                                   penalty_SoC      |-> pen_SoC,
                                   reward           |-> reward,
                                   terminated       |-> done(current_step + 1, cfg),
                                   truncated        |-> FALSE,
                                   info             |-> second.info ]
                       /\ UNCHANGED cfg

\* step(action)
step(action) == step_unset(action) \/ step_set(action)

Next ==
    \/ reset
    \/ current_step < MaxCalls /\ \E action \in Actions : step(action)

NextDay ==
    \/ reset
    \/ current_step < MaxDayCalls /\ \E action \in DayActions : step(action)

Spec == Init /\ [][Next]_vars

SpecDay == InitDay /\ [][NextDay]_vars

-----------------------------------------------------------------------------
(* Properties *)

\* The last call was a step() that returned a result.
StepReturned == ret.op = "step" /\ ret.status = "ok"

\* The configuration invariants of the data model.
ValidConfig ==
    /\ cfg.SoC_min <= cfg.SoC_max
    /\ cfg.a_min <= cfg.a_max
    /\ cfg.eta > 0
    /\ cfg.battery_capacity > 0
    /\ cfg.max_steps >= 1

InRange(x, lo, hi) == lo <= x /\ x <= hi

\* Python's sum() of a list
RECURSIVE SumSeq(_)
SumSeq(s) == IF s = <<>> THEN 0 ELSE Head(s) + SumSeq(Tail(s))

\* C1: for every valid configuration, after every step() call that returns,
\* the stored SoC lies in [SoC_min, SoC_max].
C1_SoCWithinBounds ==
    (ValidConfig /\ StepReturned) => InRange(SoC, cfg.SoC_min, cfg.SoC_max)

\* A step in which both _get_SoC passes left the bounds and were clipped.
C1_Witness ==
    /\ StepReturned
    /\ Len(ret.info.Violations_SoC) = 2
    /\ ret.info.Violations_SoC[1].value > cfg.SoC_max
    /\ ret.info.Violations_SoC[2].value < cfg.SoC_min
    /\ SoC = cfg.SoC_min

\* C2: when the corrected action is negative, the realized action satisfies
\* a_c <= actual <= 0 and |actual| <= max(net, 0); with net <= 0 it is 0.
C2_DischargeWithinDeficit ==
    (StepReturned /\ ret.action_corrected < 0) =>
        /\ ret.action_corrected <= ret.actual_action
        /\ ret.actual_action <= 0
        /\ Abs(ret.actual_action) <= Max(ret.net_load, 0)
        /\ (ret.net_load <= 0 => ret.actual_action = 0)

\* C3: after the two _get_SoC passes of one step, starting from a SoC within
\* bounds, the SoC equals clamp(SoC_before + eta * actual * time_interval /
\* battery_capacity, SoC_min, SoC_max), also when the first pass was clipped.
C3_NetEffectMatchesActual ==
    (StepReturned /\ InRange(ret.info.SoC, cfg.SoC_min, cfg.SoC_max)
                  /\ InRange(ret.action_corrected, cfg.a_min, cfg.a_max)) =>
        SoC = Clip(ret.info.SoC + SoC_increment(ret.actual_action, cfg),
                   cfg.SoC_min, cfg.SoC_max)

\* C4: the k-th step() of an episode (k = current_step, which reset() zeroes
\* and step() increments) returns terminated = true exactly when
\* k >= max_steps, and truncated is always false.
C4_TerminatedAtMaxSteps ==
    (ValidConfig /\ StepReturned) =>
        /\ ret.terminated <=> (current_step >= cfg.max_steps)
        /\ (current_step < cfg.max_steps => ~ret.terminated)
        /\ ret.truncated = FALSE

\* The max_steps-th step of an episode: the first to return terminated.
C4_Witness ==
    /\ StepReturned
    /\ current_step = cfg.max_steps
    /\ ret.terminated
    /\ ~ret.truncated

\* C5: a step() call made before any reset(), or right after a step() that
\* returned terminated = true, returns no result.
C5_StepRejectedWhenNotReady ==
    [][ ( /\ current_step' = current_step + 1
          /\ ret'.op = "step"
          /\ (SoC = None \/ (StepReturned /\ ret.terminated)) )
        => ret'.status # "ok" ]_vars

\* C6: the reward is revenue - cost - penalties, with cost = price * P_grid
\* and revenue = price * P_surplus, and it is rebuilt exactly from the
\* returned info: reward = revenue - cost - sum(info['penalty_action'])
\* - sum(info['penalty_SoC']).
C6_RewardRebuiltFromInfo ==
    StepReturned =>
        /\ ret.C_purchased = ret.price * ret.P_grid
        /\ ret.R_sale = ret.price * ret.P_surplus
        /\ ret.reward = ret.R_sale - ret.C_purchased
                        - SumSeq(ret.info.penalty_action)
                        - SumSeq(ret.info.penalty_SoC)

\* C7: the corrected action is the requested one clamped to [a_min, a_max];
\* the violation magnitude is zero exactly when the request was in range; the
\* penalty is miu_p times the magnitude; and a violation record is appended
\* exactly when the action was changed.
C7_ActionCorrector ==
    (ValidConfig /\ StepReturned) =>
        LET a   == ret.action
            a_c == ret.action_corrected
            violation == Abs(a - a_c)
        IN  /\ InRange(a_c, cfg.a_min, cfg.a_max)
            /\ (a < cfg.a_min => a_c = cfg.a_min)
            /\ (a > cfg.a_max => a_c = cfg.a_max)
            /\ (InRange(a, cfg.a_min, cfg.a_max) => a_c = a)
            /\ (violation = 0 <=> InRange(a, cfg.a_min, cfg.a_max))
            /\ ret.penalty_action = cfg.miu_p * violation * (MoneyScale \div PowerScale)
            /\ Len(ret.info.violations_action) = (IF a # a_c THEN 1 ELSE 0)
            /\ (a # a_c =>
                   ret.info.violations_action[1] =
                       [ type |-> "Action Violation", value |-> a,
                         corrected_to |-> a_c ])

\* A request below a_min: corrected up to a_min, penalized and recorded.
C7_Witness ==
    /\ StepReturned
    /\ ret.action < cfg.a_min
    /\ ret.action_corrected = cfg.a_min
    /\ ret.penalty_action > 0
    /\ Len(ret.info.violations_action) = 1

\* C8: each step() call advances the clock by time_interval hours.
C8_ClockAdvancesByTimeInterval ==
    [][ (current_step' = current_step + 1 /\ ret'.op = "step"
                                          /\ ret'.status = "ok")
        => time' = time + cfg.time_interval ]_vars

\* C9: in every state reached by reset() and step() calls, whatever
\* initial_SoC was configured, _get_SoC with x = 0 (both passes of a step
\* whose corrected action is 0) leaves SoC unchanged, returns penalty 0 and
\* records no SoC violation.
C9_ZeroInputIdempotent ==
    (StepReturned /\ ret.action_corrected = 0) =>
        /\ ret.actual_action = 0
        /\ ret.SoC_first = ret.info.SoC
        /\ SoC = ret.info.SoC
        /\ ret.info.penalty_SoC = <<0, 0>>
        /\ ret.penalty_SoC = 0
        /\ ret.info.Violations_SoC = <<>>

\* C10: the price used by a step is the tariff of the (weekday, hour) at
\* which the step ran (the clock before it advanced): Mon-Fri 8..18 high,
\* 7 and 19..22 mid, else low; Saturday 7..22 mid, else low; Sunday low.
C10_TariffSchedule ==
    StepReturned =>
        LET t == time - 1
            d == weekday(t)
            h == hour(t)
            tier == IF d \in 0 .. 4 /\ h \in 8 .. 18 THEN "max"
                    ELSE IF \/ d \in 0 .. 4 /\ h \in ({7} \cup (19 .. 22))
                            \/ d = 5 /\ h \in 7 .. 22
                         THEN "mid"
                         ELSE "min"
        IN  /\ d \in 0 .. 6 /\ h \in 0 .. 23
            /\ ret.price \in {cfg.Price_min, cfg.Price_mid, cfg.Price_max}
            /\ tier = "max" => ret.price = cfg.Price_max
            /\ tier = "mid" => ret.price = cfg.Price_mid
            /\ tier = "min" => ret.price = cfg.Price_min

\* A step run on a Friday at 19:00, the first mid-tier hour after the peak.
C10_Witness ==
    /\ StepReturned
    /\ weekday(time - 1) = 4
    /\ hour(time - 1) = 19
    /\ ret.price = cfg.Price_mid

=============================================================================
